---------------------------- MODULE Spec2Model ----------------------------
(***************************************************************************)
(* Distributed Game of Life: worker (unnamed/part_000), broker             *)
(* (unnamed/part_001 and the older broker/broker.go) and controller        *)
(* (gol/distributor.go).                                                   *)
(*                                                                         *)
(* Grids are sequences of rows, rows are sequences of cells, a cell is 0   *)
(* (dead) or 255 (alive).  The source indexes from 0 and TLA+ sequences    *)
(* from 1: operators take the source's 0-based x, y, i and add 1 at the    *)
(* point of access.                                                        *)
(***************************************************************************)
EXTENDS Integers, Sequences, FiniteSets, TLC

(* ------------------------------ bounds -------------------------------- *)
MaxW == 3
MaxH == 3
MaxCells == 9
MaxWorkers == 3
MaxCalls == 2
\* controller runs
MaxTurns == 2
MaxKeys == 2
MaxTicks == 1

(* -------------------------- program constants ------------------------- *)
Alive == 255
Dead == 0
\* controlKeys := make(chan rune, 16)
ControlKeysCap == 16

VARIABLES
  impl,          \* which broker source runs: "part_001" or "broker.go"
  params,        \* WorldParams of the ProcessTurn call: ImageWidth, ImageHeight, World
  numWorkers,    \* len(workerList)
  bpc,           \* position of the ProcessTurn handler
  calls,         \* ProcessTurn calls received so far
  tasks,         \* the Task built for each worker, in registry order
  wstate,        \* per worker goroutine: "dispatched", "merged", "failed"
  newWorld,      \* ProcessTurn's local newWorld
  currentWorld,  \* Broker.currentWorld (<<>> is nil)
  reply,         \* what ProcessTurn returned: [err, world]
  aliveReply     \* the GetAliveCellsCount reply last received since the
                 \* current ProcessTurn call began: [count, phase]

VARIABLES
  p,             \* Params: Turns, ImageWidth, ImageHeight
  world,         \* the controller's grid   (under mu)
  turn,          \* the turn counter        (under mu)
  isPaused,      \* the pause flag          (under mu)
  main,          \* the turn loop: pc, via, newWorld, flipped, worldCopy, currentTurn, src
  doneClosed,    \* the flag doneClosed
  eventsClosed,  \* the flag eventsClosed
  chans,         \* how often done and c.events were closed; whether client is closed
  poller,        \* the alive-count goroutine: pc, aliveCount, currentTurn
  intake,        \* the key goroutine: pc, key, state, currentTurn
  keyPresses,    \* keys delivered on keyPresses and not yet received
  controlKeys,   \* the buffered channel controlKeys
  env,           \* the environment: script (keys still to press), ticksLeft, ok (workers that answer)
  trace,         \* history: events sent, IO and RPC interactions, closes, in order
  worlds,        \* history: the grid after 0, 1, 2, ... turns
  panic          \* "" or the runtime panic that ended the process

brokerVars == <<impl, params, numWorkers, bpc, calls, tasks, wstate, newWorld,
                currentWorld, reply, aliveReply>>

ctlVars == <<p, world, turn, isPaused, main, doneClosed, eventsClosed, chans,
             poller, intake, keyPresses, controlKeys, env, trace, worlds, panic>>

vars == <<brokerVars, ctlVars>>

(* ------------------------------- grids -------------------------------- *)
Impls == {"part_001", "broker.go"}

Cells == {Dead, Alive}

\* every w-cell row
Rows(w) == [1..w -> Cells]

\* make([][]uint8, h) with each row make([]uint8, w): all zero
MakeWorld(h, w) == [y \in 1..h |-> [x \in 1..w |-> Dead]]

\* countAlive: the number of cells equal to 255
countAlive(grid) ==
  Cardinality({c \in (DOMAIN grid) \X (1..MaxW + 1) :
                 c[2] \in DOMAIN grid[c[1]] /\ grid[c[1]][c[2]] = Alive})

\* every h x w grid
Grids(h, w) == [1..h -> Rows(w)]

\* the grid sizes of the model
Shapes == {s \in (1..MaxW) \X (1..MaxH) : s[1] * s[2] <= MaxCells}

(* ------------------------ Worker.ProcessPart -------------------------- *)
\* the 8 (dx, dy) pairs of the two nested loops, (0,0) skipped
Offsets == {d \in (-1..1) \X (-1..1) : ~(d[1] = 0 /\ d[2] = 0)}

\* nx := (x + dx + width) % width
WrapX(x, dx, width) == (x + dx + width) % width

\* the neighbour count of buffer cell (x, srcY): rows outside the buffer are
\* skipped, columns wrap
Neighbors(part, x, srcY, width) ==
  Cardinality({d \in Offsets :
                 LET ny == srcY + d[2]
                     nx == WrapX(x, d[1], width)
                 IN  /\ ny >= 0
                     /\ ny < Len(part)
                     /\ part[ny + 1][nx + 1] = Alive})

RuleSurviveOnly2(cell, neighbors) ==
  IF cell = Alive
  THEN IF neighbors = 2 THEN Alive ELSE Dead
  ELSE IF neighbors = 3 THEN Alive ELSE Dead

\* the if/else on cell and neighbors
Rule(cell, neighbors) ==
  IF cell = Alive
  THEN IF neighbors = 2 \/ neighbors = 3 THEN Alive ELSE Dead
  ELSE IF neighbors = 3 THEN Alive ELSE Dead

\* the buffer length checked before the height
ProcessPartBufferFirst(t) ==
  LET height == t.EndY - t.StartY
  IN  IF Len(t.WorldPart) < height + 2
      THEN [err |-> "invalid task: worldPart too small", rows |-> <<>>]
      ELSE IF height <= 0
      THEN [err |-> "invalid task: height <= 0", rows |-> <<>>]
      ELSE LET width == Len(t.WorldPart[1])
           IN  [err |-> "",
                rows |-> [y \in 1..height |->
                           [x \in 1..width |->
                              Rule(t.WorldPart[y + 1][x],
                                   Neighbors(t.WorldPart, x - 1, y, width))]]]

\* Worker.ProcessPart: [err, rows]; err = "" is a nil error
ProcessPart(t) ==
  LET height == t.EndY - t.StartY
  IN  IF height <= 0
      THEN [err |-> "invalid task: height <= 0", rows |-> <<>>]
      ELSE IF Len(t.WorldPart) < height + 2
      THEN [err |-> "invalid task: worldPart too small", rows |-> <<>>]
      ELSE LET width == Len(t.WorldPart[1])
           IN  [err |-> "",
                rows |-> [y \in 1..height |->
                           [x \in 1..width |->
                              Rule(t.WorldPart[y + 1][x],
                                   Neighbors(t.WorldPart, x - 1, y, width))]]]

(* ------------------------- Broker.ProcessTurn ------------------------- *)
\* rowsPerWorker := params.ImageHeight / numWorkers
rowsPerWorker(H, n) == H \div n

startY(i, H, n) == i * rowsPerWorker(H, n)

\* rowsPerWorker rows for every band, the last one included
endYNoRemainder(i, H, n) == startY(i, H, n) + rowsPerWorker(H, n)

endY(i, H, n) ==
  IF i = n - 1 THEN H ELSE startY(i, H, n) + rowsPerWorker(H, n)

\* the two halo rows taken without wraparound: the band's own edge row where
\* the neighbour lies beyond the grid's first or last row
WorldPartNoWrap(grid, H, s, e) ==
  LET len == e - s
  IN  [k \in 1..(len + 2) |->
         IF k = 1 THEN grid[(IF s = 0 THEN 0 ELSE s - 1) + 1]
         ELSE IF k = len + 2 THEN grid[(IF e = H THEN H - 1 ELSE e) + 1]
         ELSE grid[s + k - 1]]

\* part_001: worldPart[0] the row above, [1..len] the band, [len+1] the row below
WorldPart(grid, H, s, e) ==
  LET len == e - s
  IN  [k \in 1..(len + 2) |->
         IF k = 1 THEN grid[((s - 1 + H) % H) + 1]
         ELSE IF k = len + 2 THEN grid[(e % H) + 1]
         ELSE grid[s + k - 1]]

\* broker.go: the band copied from index 0, then [len-2] the row below and
\* [len-1] the row above
WorldPartOld(grid, H, s, e) ==
  LET n == e - s + 2
  IN  [k \in 1..n |->
         IF k = n THEN grid[((s - 1 + H) % H) + 1]
         ELSE IF k = n - 1 THEN grid[(e % H) + 1]
         ELSE grid[s + k]]

BuildTask(im, grid, H, i, n) ==
  LET s == startY(i, H, n)
      e == endY(i, H, n)
  IN  [StartY |-> s, EndY |-> e,
       WorldPart |-> IF im = "part_001" THEN WorldPart(grid, H, s, e)
                                        ELSE WorldPartOld(grid, H, s, e)]

\* newWorld[t.StartY+y] = workerResult[y] for every returned row
MergeRows(grid, s, rows) ==
  [y \in DOMAIN grid |->
     IF y - 1 >= s /\ y - 1 < s + Len(rows) THEN rows[y - s] ELSE grid[y]]

NoReply == [err |-> "none", world |-> <<>>]
NoAliveReply == [count |-> -1, phase |-> "none"]

NoMain == [pc |-> "none", via |-> "", newWorld |-> <<>>, flipped |-> <<>>,
           worldCopy |-> <<>>, currentTurn |-> 0, src |-> "distributor.go"]
NoPoller == [pc |-> "none", aliveCount |-> 0, currentTurn |-> 0]
NoIntake == [pc |-> "none", key |-> "", state |-> "", currentTurn |-> 0]

\* the controller's variables while only the broker is looked at
CtlIdle ==
  /\ p = [Turns |-> 0, ImageWidth |-> 0, ImageHeight |-> 0]
  /\ world = <<>>
  /\ turn = 0
  /\ isPaused = FALSE
  /\ main = NoMain
  /\ doneClosed = FALSE
  /\ eventsClosed = FALSE
  /\ chans = [done |-> 0, events |-> 0, client |-> "none"]
  /\ poller = NoPoller
  /\ intake = NoIntake
  /\ keyPresses = <<>>
  /\ controlKeys = <<>>
  /\ env = [script |-> <<>>, ticksLeft |-> 0, ok |-> {}]
  /\ trace = <<>>
  /\ worlds = <<>>
  /\ panic = ""

InitBroker ==
  /\ CtlIdle
  /\ impl \in Impls
  /\ \E s \in Shapes :
       \E g \in Grids(s[2], s[1]) :
         params = [ImageWidth |-> s[1], ImageHeight |-> s[2], World |-> g]
  /\ numWorkers \in 0..MaxWorkers
  /\ bpc = "idle"
  /\ calls = 0
  /\ tasks = <<>>
  /\ wstate = <<>>
  /\ newWorld = <<>>
  /\ currentWorld = <<>>
  /\ reply = NoReply
  /\ aliveReply = NoAliveReply

\* ProcessTurn, from its first statement to the start of the worker goroutines
\* (lines 127-199 of part_001, 33-83 of broker.go): store the input as the
\* cache, allocate newWorld, snapshot the registry, fail without workers, else
\* build one Task per worker and start its goroutine.  The first call carries
\* the seeded grid, a later one the grid the last call returned
\* (gol/distributor.go:205-233).
Enter(grid) ==
  /\ bpc = "idle"
  /\ calls' = calls + 1
  /\ params' = [params EXCEPT !.World = grid]
  /\ currentWorld' = IF impl = "part_001" THEN grid ELSE currentWorld
  /\ newWorld' = MakeWorld(params.ImageHeight, params.ImageWidth)
  /\ IF numWorkers = 0
     THEN /\ reply' = [err |-> "no workers available", world |-> <<>>]
          /\ bpc' = "idle"
          /\ UNCHANGED <<tasks, wstate>>
     ELSE /\ tasks' = [i \in 1..numWorkers |->
                         BuildTask(impl, grid, params.ImageHeight, i - 1, numWorkers)]
          /\ wstate' = [i \in 1..numWorkers |-> "dispatched"]
          /\ bpc' = "dispatched"
          /\ reply' = NoReply
  /\ aliveReply' = NoAliveReply
  /\ UNCHANGED <<impl, numWorkers>>
  /\ UNCHANGED ctlVars

\* a caller that passes the seeded grid first and then each returned grid
ProcessTurnEnter ==
  /\ calls < MaxCalls
  /\ reply.err \in {"none", ""}
  /\ Enter(IF reply.err = "" THEN reply.world ELSE params.World)

\* the merge written through the cache as well, as if b.currentWorld had been
\* pointed at newWorld before the goroutines ran
WorkerMergeIntoCache(i) ==
  /\ bpc = "dispatched"
  /\ wstate[i] = "dispatched"
  /\ ProcessPart(tasks[i]).err = ""
  /\ newWorld' = MergeRows(newWorld, tasks[i].StartY, ProcessPart(tasks[i]).rows)
  /\ currentWorld' = IF impl = "part_001" THEN newWorld' ELSE currentWorld
  /\ wstate' = [wstate EXCEPT ![i] = "merged"]
  /\ UNCHANGED <<impl, params, numWorkers, bpc, calls, tasks, reply, aliveReply>>
  /\ UNCHANGED ctlVars

\* a worker goroutine whose Call returned nil: merge under resultMu
WorkerMerge(i) ==
  /\ bpc = "dispatched"
  /\ wstate[i] = "dispatched"
  /\ ProcessPart(tasks[i]).err = ""
  /\ newWorld' = MergeRows(newWorld, tasks[i].StartY, ProcessPart(tasks[i]).rows)
  /\ wstate' = [wstate EXCEPT ![i] = "merged"]
  /\ UNCHANGED <<impl, params, numWorkers, bpc, calls, tasks, currentWorld,
                 reply, aliveReply>>
  /\ UNCHANGED ctlVars

\* a worker goroutine whose Call returned an error (the worker rejected the
\* task, or the transport failed): print and return
WorkerFail(i) ==
  /\ bpc = "dispatched"
  /\ wstate[i] = "dispatched"
  /\ wstate' = [wstate EXCEPT ![i] = "failed"]
  /\ UNCHANGED <<impl, params, numWorkers, bpc, calls, tasks, newWorld,
                 currentWorld, reply, aliveReply>>
  /\ UNCHANGED ctlVars

\* the cache stored without wg.Wait(): some calls may still be outstanding
ProcessTurnCommitNoWait ==
  /\ bpc = "dispatched"
  /\ currentWorld' = IF impl = "part_001" THEN newWorld ELSE currentWorld
  /\ bpc' = "committed"
  /\ UNCHANGED <<impl, params, numWorkers, calls, tasks, wstate, newWorld,
                 reply, aliveReply>>
  /\ UNCHANGED ctlVars

\* wg.Wait() returned: store newWorld as the cache (part_001 only)
ProcessTurnCommit ==
  /\ bpc = "dispatched"
  /\ \A i \in 1..numWorkers : wstate[i] # "dispatched"
  /\ currentWorld' = IF impl = "part_001" THEN newWorld ELSE currentWorld
  /\ bpc' = "committed"
  /\ UNCHANGED <<impl, params, numWorkers, calls, tasks, wstate, newWorld,
                 reply, aliveReply>>
  /\ UNCHANGED ctlVars

\* a failed worker call returned as the error of the turn
ProcessTurnReturnFailing ==
  /\ bpc = "committed"
  /\ reply' = IF \E i \in DOMAIN wstate : wstate[i] = "failed"
              THEN [err |-> "worker failed", world |-> <<>>]
              ELSE [err |-> "", world |-> newWorld]
  /\ bpc' = "idle"
  /\ UNCHANGED <<impl, params, numWorkers, calls, tasks, wstate, newWorld,
                 currentWorld, aliveReply>>
  /\ UNCHANGED ctlVars

\* *reply = newWorld; return nil
ProcessTurnReturn ==
  /\ bpc = "committed"
  /\ reply' = [err |-> "", world |-> newWorld]
  /\ bpc' = "idle"
  /\ UNCHANGED <<impl, params, numWorkers, calls, tasks, wstate, newWorld,
                 currentWorld, aliveReply>>
  /\ UNCHANGED ctlVars

\* Broker.GetAliveCellsCount (part_001): count the cache under b.mu
GetAliveCellsCount ==
  /\ impl = "part_001"
  /\ aliveReply' = [count |-> countAlive(currentWorld), phase |-> bpc]
  /\ UNCHANGED <<impl, params, numWorkers, bpc, calls, tasks, wstate, newWorld,
                 currentWorld, reply>>
  /\ UNCHANGED ctlVars

NextBroker ==
  \/ ProcessTurnEnter
  \/ \E i \in 1..numWorkers : WorkerMerge(i)
  \/ \E i \in 1..numWorkers : WorkerFail(i)
  \/ ProcessTurnCommit
  \/ ProcessTurnReturn
  \/ GetAliveCellsCount

SpecBroker == InitBroker /\ [][NextBroker]_vars

(* ---------------------------- LocalBroker ------------------------------- *)
\* the eight directions of countLiveNeighbors, <<dx, dy>>
dirs ==
  { <<-1, -1>>, <<-1, 0>>, <<-1, 1>>, <<0, -1>>, <<0, 1>>, <<1, -1>>, <<1, 0>>, <<1, 1>> }

\* countLiveNeighbors(world, x, y, width, height): x, y count from 0; a
\* neighbour outside the grid is skipped
countLiveNeighbors(grid, x, y, width, height) ==
  Cardinality({d \in dirs :
                 /\ x + d[1] >= 0
                 /\ x + d[1] < width
                 /\ y + d[2] >= 0
                 /\ y + d[2] < height
                 /\ grid[y + d[2] + 1][x + d[1] + 1] = Alive})

\* ProcessTurnLocal(params): the grid it returns
ProcessTurnLocal(ps) ==
  [y \in 1..ps.ImageHeight |->
     [x \in 1..ps.ImageWidth |->
        IF ps.World[y][x] = Alive
        THEN IF countLiveNeighbors(ps.World, x - 1, y - 1, ps.ImageWidth, ps.ImageHeight)
                  \in {2, 3}
             THEN Alive ELSE Dead
        ELSE IF countLiveNeighbors(ps.World, x - 1, y - 1, ps.ImageWidth, ps.ImageHeight) = 3
             THEN Alive ELSE Dead]]

\* LocalBroker.ProcessTurn(params, reply): always a nil error
LocalProcessTurn(ps) == [err |-> "", world |-> ProcessTurnLocal(ps)]

(* ------------------- Worker.ProcessPart on any task ------------------- *)
\* the buffers of a task: up to MaxH + 2 rows of one width, none included
Buffers ==
  UNION {Grids(s[1], s[2]) : s \in {c \in (0..MaxH + 2) \X (1..MaxW) : c[1] * c[2] <= MaxCells}}

\* a worker has received a task, well formed or not
InitWorker ==
  /\ CtlIdle
  /\ \E sy \in 0..1 : \E ey \in 0..MaxH + 1 : \E wp \in Buffers :
       tasks = << [StartY |-> sy, EndY |-> ey, WorldPart |-> wp] >>
  /\ wstate = <<"dispatched">>
  /\ bpc = "worker"
  /\ impl = "part_001"
  /\ params = [ImageWidth |-> 0, ImageHeight |-> 0, World |-> <<>>]
  /\ numWorkers = 1
  /\ calls = 0
  /\ newWorld = <<>>
  /\ currentWorld = <<>>
  /\ reply = NoReply
  /\ aliveReply = NoAliveReply

\* Worker.ProcessPart(t, reply): *reply is assigned only on success
ProcessPartCall ==
  /\ bpc = "worker"
  /\ wstate[1] = "dispatched"
  /\ reply' = [err |-> ProcessPart(tasks[1]).err, world |-> ProcessPart(tasks[1]).rows]
  /\ wstate' = << IF ProcessPart(tasks[1]).err = "" THEN "returned" ELSE "rejected" >>
  /\ UNCHANGED <<impl, params, numWorkers, bpc, calls, tasks, newWorld, currentWorld,
                 aliveReply>>
  /\ UNCHANGED ctlVars

NextWorker == ProcessPartCall

SpecWorker == InitWorker /\ [][NextWorker]_vars

(* ---------------------- controller: gol/distributor.go ---------------- *)
\* Broker.ProcessTurn as its caller sees it: the merges of the workers in ok
\* (those whose call returned) onto an all-dead newWorld, or the error
RECURSIVE MergeBands(_, _, _, _, _, _)
MergeBands(nw, im, wp, n, ok, i) ==
  IF i > n THEN nw
  ELSE LET t == BuildTask(im, wp.World, wp.ImageHeight, i - 1, n)
           r == ProcessPart(t)
       IN  MergeBands(IF i \in ok /\ r.err = "" THEN MergeRows(nw, t.StartY, r.rows) ELSE nw,
                      im, wp, n, ok, i + 1)

ProcessTurnResult(im, wp, n, ok) ==
  IF n = 0
  THEN [err |-> "no workers available", world |-> <<>>]
  ELSE [err |-> "",
        world |-> MergeBands(MakeWorld(wp.ImageHeight, wp.ImageWidth), im, wp, n, ok, 1)]

\* the runes the controller tells apart; "x" is any other rune
Keys == {"p", "s", "q", "k", "x"}

EventTypes == {"StateChange", "CellsFlipped", "TurnComplete", "AliveCellsCount",
               "ImageOutputComplete", "FinalTurnComplete"}

\* one entry of the history: who did it, what, the turn it carries, its payload
Entry(by, type, t, data) == [by |-> by, type |-> type, turn |-> t, data |-> data]

\* the cells (x, y), in row-major order from cell number k on, that are alive
RECURSIVE AliveFrom(_, _)
AliveFrom(w, k) ==
  LET W == Len(w[1])
  IN  IF k >= Len(w) * W THEN <<>>
      ELSE (IF w[(k \div W) + 1][(k % W) + 1] = Alive
            THEN << <<k % W, k \div W>> >> ELSE <<>>) \o AliveFrom(w, k + 1)

\* getAliveCells
getAliveCells(w) == IF w = <<>> THEN <<>> ELSE AliveFrom(w, 0)

\* the live cells of the new grid reported in place of the cells that differ
FlippedFromAlive(old, new, W, H, k) == getAliveCells(new)

\* the cells, in row-major order from cell number k on, where old and new differ
RECURSIVE FlippedFrom(_, _, _, _, _)
FlippedFrom(old, new, W, H, k) ==
  IF k >= H * W THEN <<>>
  ELSE (IF old[(k \div W) + 1][(k % W) + 1] # new[(k \div W) + 1][(k % W) + 1]
        THEN << <<k % W, k \div W>> >> ELSE <<>>) \o FlippedFrom(old, new, W, H, k + 1)

\* line 185: for turn < p.Turns
LoopGuard(t, turns) == t < turns

\* the seed with live cells
Blinker == <<<<Dead, Dead, Dead>>, <<Alive, Alive, Alive>>, <<Dead, Dead, Dead>>>>

\* the seeded grids of the controller runs: an all-dead 2 x 2 grid, and a 3 x 3
\* grid with its middle row alive (9 live cells after one turn, none after two)
Seeds == {MakeWorld(2, 2), Blinker}

\* the keys pressed during a run, in order: every sequence of up to n keys
Scripts(n) == UNION {[1..k -> Keys] : k \in 0..n}

\* a flood of keys the controller ignores, then a pause
Flood == [k \in 1..ControlKeysCap + 2 |-> IF k = ControlKeysCap + 2 THEN "p" ELSE "x"]

\* the runs of the model: no key and no tick on every seed, for every number
\* of turns, with no worker or with two of which those in ok answer; every
\* script; the ticker firing during a run of one turn with at most one key;
\* and the flood
Runs ==
  [seed : Seeds, Turns : 0..MaxTurns, workers : {0}, ok : {{}}, script : {<<>>},
   ticks : {0}]
  \cup
  [seed : Seeds, Turns : 0..MaxTurns, workers : {2}, ok : SUBSET (1..2), script : {<<>>},
   ticks : {0}]
  \cup
  [seed : {Blinker}, Turns : {MaxTurns}, workers : {2}, ok : {1..2},
   script : Scripts(MaxKeys), ticks : {0}]
  \cup
  [seed : {Blinker}, Turns : {1}, workers : {2}, ok : {1..2},
   script : Scripts(1), ticks : {MaxTicks}]
  \cup
  [seed : {MakeWorld(2, 2)}, Turns : {1}, workers : {2}, ok : {1..2}, script : {Flood},
   ticks : {0}]

\* distributor, lines 27-43: the world is allocated and read from ioInput
InitCtl ==
  /\ \E r \in Runs :
       /\ p = [Turns |-> r.Turns, ImageWidth |-> Len(r.seed[1]), ImageHeight |-> Len(r.seed)]
       /\ world = r.seed
       /\ worlds = <<r.seed>>
       /\ numWorkers = r.workers
       /\ env = [script |-> r.script, ticksLeft |-> r.ticks, ok |-> r.ok]
       /\ params = [ImageWidth |-> Len(r.seed[1]), ImageHeight |-> Len(r.seed), World |-> r.seed]
  /\ turn = 0
  /\ isPaused = FALSE
  /\ main = [NoMain EXCEPT !.pc = "start"]
  /\ doneClosed = FALSE
  /\ eventsClosed = FALSE
  /\ chans = [done |-> 0, events |-> 0, client |-> "none"]
  /\ poller = NoPoller
  /\ intake = NoIntake
  /\ keyPresses = <<>>
  /\ controlKeys = <<>>
  /\ trace = <<>>
  /\ panic = ""
  /\ impl = "part_001"
  /\ bpc = "idle"
  /\ calls = 0
  /\ tasks = <<>>
  /\ wstate = <<>>
  /\ newWorld = <<>>
  /\ currentWorld = <<>>
  /\ reply = NoReply
  /\ aliveReply = NoAliveReply

\* c.events <- e by goroutine `by`: a send on the closed channel panics
Send(by, type, t, data) ==
  IF chans.events > 0
  THEN /\ panic' = "send on closed channel"
       /\ UNCHANGED trace
  ELSE /\ trace' = Append(trace, Entry(by, type, t, data))
       /\ UNCHANGED panic

\* an interaction that is not an event: IO, RPC, a close
Note(by, type, t, data) == trace' = Append(trace, Entry(by, type, t, data))

Running == panic = ""

(* the turn loop *)

\* lines 45-63: StateChange{0, Executing}, CellsFlipped{0, initialAlive} if
\* any cell is alive, TurnComplete{0}
Startup ==
  /\ Running
  /\ main.pc = "start"
  /\ trace' = trace
              \o << Entry("main", "StateChange", turn, "Executing") >>
              \o (IF getAliveCells(world) # <<>>
                  THEN << Entry("main", "CellsFlipped", turn, getAliveCells(world)) >>
                  ELSE <<>>)
              \o << Entry("main", "TurnComplete", turn, <<>>) >>
  /\ main' = [main EXCEPT !.pc = "dial"]
  /\ UNCHANGED <<brokerVars, p, world, turn, isPaused, doneClosed, eventsClosed, chans,
                 poller, intake, keyPresses, controlKeys, env, worlds, panic>>

\* lines 66-122: rpc.Dial succeeded; the ticker, the poller and the key
\* goroutine are started
Dial ==
  /\ Running
  /\ main.pc = "dial"
  /\ main' = [main EXCEPT !.pc = "loop"]
  /\ chans' = [chans EXCEPT !.client = "open"]
  /\ poller' = [poller EXCEPT !.pc = "select"]
  /\ intake' = [intake EXCEPT !.pc = "recv"]
  /\ UNCHANGED <<brokerVars, p, world, turn, isPaused, doneClosed, eventsClosed,
                 keyPresses, controlKeys, env, trace, worlds, panic>>

\* lines 66-70: rpc.Dial failed; distributor returns
DialError ==
  /\ Running
  /\ main.pc = "dial"
  /\ main' = [main EXCEPT !.pc = "exited", !.via = "dial"]
  /\ UNCHANGED <<brokerVars, p, world, turn, isPaused, doneClosed, eventsClosed, chans,
                 poller, intake, keyPresses, controlKeys, env, trace, worlds, panic>>

AtLoop == Running /\ main.pc = "loop" /\ LoopGuard(turn, p.Turns)

\* handleKey 's', lines 131-137: copy world and turn under mu, then saveWorld
HandleSave ==
  /\ AtLoop
  /\ controlKeys # <<>>
  /\ Head(controlKeys) = "s"
  /\ controlKeys' = Tail(controlKeys)
  /\ main' = [main EXCEPT !.pc = "save", !.via = "s",
                          !.worldCopy = world, !.currentTurn = turn]
  /\ UNCHANGED <<brokerVars, p, world, turn, isPaused, doneClosed, eventsClosed, chans,
                 poller, intake, keyPresses, env, trace, worlds, panic>>

\* 'q' closing done without recording it and without ending the run
HandleQuitKeepsRunning ==
  /\ AtLoop
  /\ controlKeys # <<>>
  /\ Head(controlKeys) = "q"
  /\ controlKeys' = Tail(controlKeys)
  /\ chans' = [chans EXCEPT !.done = @ + 1]
  /\ trace' = Append(trace, Entry("main", "closeDone", turn, <<>>))
  /\ UNCHANGED <<brokerVars, p, world, turn, isPaused, main, doneClosed, eventsClosed,
                 poller, intake, keyPresses, env, worlds, panic>>

\* handleKey 'q', lines 139-149: close done once, copy, then finalizeGame
HandleQuit ==
  /\ AtLoop
  /\ controlKeys # <<>>
  /\ Head(controlKeys) = "q"
  /\ controlKeys' = Tail(controlKeys)
  /\ chans' = IF doneClosed THEN chans ELSE [chans EXCEPT !.done = @ + 1]
  /\ trace' = IF doneClosed THEN trace
              ELSE Append(trace, Entry("main", "closeDone", turn, <<>>))
  /\ doneClosed' = TRUE
  /\ main' = [main EXCEPT !.pc = "final", !.via = "q",
                          !.worldCopy = world, !.currentTurn = turn]
  /\ UNCHANGED <<brokerVars, p, world, turn, isPaused, eventsClosed,
                 poller, intake, keyPresses, env, worlds, panic>>

\* handleKey 'k', lines 152-158: copy, then saveWorld
HandleShutdown ==
  /\ AtLoop
  /\ controlKeys # <<>>
  /\ Head(controlKeys) = "k"
  /\ controlKeys' = Tail(controlKeys)
  /\ main' = [main EXCEPT !.pc = "save", !.via = "k",
                          !.worldCopy = world, !.currentTurn = turn]
  /\ UNCHANGED <<brokerVars, p, world, turn, isPaused, doneClosed, eventsClosed, chans,
                 poller, intake, keyPresses, env, trace, worlds, panic>>

\* handleKey default, lines 178-181: any other key is dropped
HandleOther ==
  /\ AtLoop
  /\ controlKeys # <<>>
  /\ Head(controlKeys) \notin {"s", "q", "k"}
  /\ controlKeys' = Tail(controlKeys)
  /\ UNCHANGED <<brokerVars, p, world, turn, isPaused, main, doneClosed, eventsClosed,
                 chans, poller, intake, keyPresses, env, trace, worlds, panic>>

\* lines 192-201: no key is waiting and the run is paused: sleep, continue
LoopPaused ==
  /\ AtLoop
  /\ controlKeys = <<>>
  /\ isPaused
  /\ UNCHANGED vars

\* lines 192-213: no key is waiting and the run is not paused: send world to
\* Broker.ProcessTurn
CallProcessTurn ==
  /\ AtLoop
  /\ controlKeys = <<>>
  /\ ~isPaused
  /\ main' = [main EXCEPT !.pc = "call"]
  /\ Note("main", "ProcessTurnCall", turn, world)
  /\ UNCHANGED <<brokerVars, p, world, turn, isPaused, doneClosed, eventsClosed, chans,
                 poller, intake, keyPresses, controlKeys, env, worlds, panic>>

\* line 213: the call returned a grid
ReturnOK(grid) ==
  /\ Running
  /\ main.pc = "call"
  /\ main' = [main EXCEPT !.pc = "commit", !.newWorld = grid]
  /\ Note("main", "ProcessTurnReturn", turn, "")
  /\ UNCHANGED <<brokerVars, p, world, turn, isPaused, doneClosed, eventsClosed, chans,
                 poller, intake, keyPresses, controlKeys, env, worlds, panic>>

\* an error followed by finalizeGame
ReturnErrorFinalizes(err) ==
  /\ Running
  /\ main.pc = "call"
  /\ chans' = IF doneClosed THEN chans ELSE [chans EXCEPT !.done = @ + 1]
  /\ trace' = trace
              \o << Entry("main", "ProcessTurnReturn", turn, err) >>
              \o (IF doneClosed THEN <<>> ELSE << Entry("main", "closeDone", turn, <<>>) >>)
  /\ doneClosed' = TRUE
  /\ main' = [main EXCEPT !.pc = "final", !.via = "error",
                          !.worldCopy = world, !.currentTurn = turn]
  /\ UNCHANGED <<brokerVars, p, world, turn, isPaused, eventsClosed,
                 poller, intake, keyPresses, controlKeys, env, worlds, panic>>

\* an error counted as a turn
ReturnErrorCountsTurn(err) ==
  /\ Running
  /\ main.pc = "call"
  /\ turn' = turn + 1
  /\ Note("main", "ProcessTurnReturn", turn, err)
  /\ main' = [main EXCEPT !.pc = "turnComplete", !.currentTurn = turn + 1]
  /\ UNCHANGED <<brokerVars, p, world, isPaused, doneClosed, eventsClosed, chans,
                 poller, intake, keyPresses, controlKeys, env, worlds, panic>>

\* lines 213-221: the call returned an error: close done once and return
ReturnError(err) ==
  /\ Running
  /\ main.pc = "call"
  /\ chans' = IF doneClosed THEN chans ELSE [chans EXCEPT !.done = @ + 1]
  /\ trace' = trace
              \o << Entry("main", "ProcessTurnReturn", turn, err) >>
              \o (IF doneClosed THEN <<>> ELSE << Entry("main", "closeDone", turn, <<>>) >>)
  /\ doneClosed' = TRUE
  /\ main' = [main EXCEPT !.pc = "exited", !.via = "error"]
  /\ UNCHANGED <<brokerVars, p, world, turn, isPaused, eventsClosed,
                 poller, intake, keyPresses, controlKeys, env, worlds, panic>>

\* the broker's answer, taken from its summary: a grid when it has workers
ProcessTurnOK ==
  /\ numWorkers > 0
  /\ ReturnOK(ProcessTurnResult(impl,
                [ImageWidth |-> p.ImageWidth, ImageHeight |-> p.ImageHeight, World |-> world],
                numWorkers, env.ok).world)

\* the broker's answer, taken from its summary: no workers, or the connection
\* failed
ProcessTurnError ==
  ReturnError(IF numWorkers = 0 THEN "no workers available" ELSE "rpc error")

\* turn++ done twice
CommitTurnTwice ==
  /\ Running
  /\ main.pc = "commit"
  /\ LET f == FlippedFrom(world, main.newWorld, p.ImageWidth, p.ImageHeight, 0)
     IN  main' = [main EXCEPT !.pc = IF f = <<>> THEN "turnComplete" ELSE "flipped",
                              !.flipped = f, !.currentTurn = turn + 2]
  /\ world' = main.newWorld
  /\ worlds' = Append(worlds, main.newWorld)
  /\ turn' = turn + 2
  /\ UNCHANGED <<brokerVars, p, isPaused, doneClosed, eventsClosed, chans,
                 poller, intake, keyPresses, controlKeys, env, trace, panic>>

\* CellsFlipped sent even when no cell flipped
CommitTurnAlwaysFlipped ==
  /\ Running
  /\ main.pc = "commit"
  /\ main' = [main EXCEPT !.pc = "flipped", !.currentTurn = turn + 1,
         !.flipped = FlippedFrom(world, main.newWorld, p.ImageWidth, p.ImageHeight, 0)]
  /\ world' = main.newWorld
  /\ worlds' = Append(worlds, main.newWorld)
  /\ turn' = turn + 1
  /\ UNCHANGED <<brokerVars, p, isPaused, doneClosed, eventsClosed, chans,
                 poller, intake, keyPresses, controlKeys, env, trace, panic>>

\* lines 223-236, under mu: collect the flipped cells, world = newWorld, turn++
CommitTurn ==
  /\ Running
  /\ main.pc = "commit"
  /\ LET f == FlippedFrom(world, main.newWorld, p.ImageWidth, p.ImageHeight, 0)
     IN  main' = [main EXCEPT !.pc = IF f = <<>> THEN "turnComplete" ELSE "flipped",
                              !.flipped = f, !.currentTurn = turn + 1]
  /\ world' = main.newWorld
  /\ worlds' = Append(worlds, main.newWorld)
  /\ turn' = turn + 1
  /\ UNCHANGED <<brokerVars, p, isPaused, doneClosed, eventsClosed, chans,
                 poller, intake, keyPresses, controlKeys, env, trace, panic>>

\* lines 238-240: c.events <- CellsFlipped (flipped is not empty)
SendCellsFlipped ==
  /\ Running
  /\ main.pc = "flipped"
  /\ Send("main", "CellsFlipped", main.currentTurn, main.flipped)
  /\ main' = [main EXCEPT !.pc = "turnComplete"]
  /\ UNCHANGED <<brokerVars, p, world, turn, isPaused, doneClosed, eventsClosed, chans,
                 poller, intake, keyPresses, controlKeys, env, worlds>>

\* line 241: c.events <- TurnComplete
SendTurnComplete ==
  /\ Running
  /\ main.pc = "turnComplete"
  /\ Send("main", "TurnComplete", main.currentTurn, <<>>)
  /\ main' = [main EXCEPT !.pc = "loop"]
  /\ UNCHANGED <<brokerVars, p, world, turn, isPaused, doneClosed, eventsClosed, chans,
                 poller, intake, keyPresses, controlKeys, env, worlds>>

\* lines 245-253: turn reached p.Turns: close done unless doneClosed, copy,
\* then finalizeGame
MaxTurnsReached ==
  /\ Running
  /\ main.pc = "loop"
  /\ ~LoopGuard(turn, p.Turns)
  /\ chans' = IF doneClosed THEN chans ELSE [chans EXCEPT !.done = @ + 1]
  /\ trace' = IF doneClosed THEN trace
              ELSE Append(trace, Entry("main", "closeDone", turn, <<>>))
  /\ main' = [main EXCEPT !.pc = "final", !.via = "max",
                          !.worldCopy = world, !.currentTurn = turn]
  /\ UNCHANGED <<brokerVars, p, world, turn, isPaused, doneClosed, eventsClosed,
                 poller, intake, keyPresses, controlKeys, env, worlds, panic>>

\* finalizeGame, lines 323-324: c.events <- FinalTurnComplete
SendFinalTurnComplete ==
  /\ Running
  /\ main.pc = "final"
  /\ Send("main", "FinalTurnComplete", main.currentTurn, getAliveCells(main.worldCopy))
  /\ main' = [main EXCEPT !.pc = "save"]
  /\ UNCHANGED <<brokerVars, p, world, turn, isPaused, doneClosed, eventsClosed, chans,
                 poller, intake, keyPresses, controlKeys, env, worlds>>

\* saveWorld, lines 300-315: ioOutput, the filename, then every cell of the
\* copy in row-major order; ioCheckIdle, then wait for ioIdle
SaveOutput ==
  /\ Running
  /\ main.pc = "save"
  /\ main.src = "distributor.go"
  /\ trace' = trace \o << Entry("main", "ioOutput", main.currentTurn, main.worldCopy),
                          Entry("main", "ioIdle", main.currentTurn, <<>>) >>
  /\ main' = [main EXCEPT !.pc = "saveDone"]
  /\ UNCHANGED <<brokerVars, p, world, turn, isPaused, doneClosed, eventsClosed, chans,
                 poller, intake, keyPresses, controlKeys, env, worlds, panic>>

\* saveWorld of broker/broker.go, lines 437-445: ioOutput, the filename, then
\* every cell of the copy in row-major order
SaveOutputOld ==
  /\ Running
  /\ main.pc = "save"
  /\ main.src = "broker.go"
  /\ Note("main", "ioOutput", main.currentTurn, main.worldCopy)
  /\ main' = [main EXCEPT !.pc = "saveDone"]
  /\ UNCHANGED <<brokerVars, p, world, turn, isPaused, doneClosed, eventsClosed, chans,
                 poller, intake, keyPresses, controlKeys, env, worlds, panic>>

\* saveWorld, line 318: c.events <- ImageOutputComplete; then back to the
\* caller: the loop ('s'), finalizeGame ('q', max turns) or handleKey 'k'
SendImageOutputComplete ==
  /\ Running
  /\ main.pc = "saveDone"
  /\ Send("main", "ImageOutputComplete", main.currentTurn,
          <<p.ImageWidth, p.ImageHeight, main.currentTurn>>)
  /\ main' = [main EXCEPT !.pc = CASE main.via = "s" -> "loop"
                                   [] main.via = "k" -> "shutdown"
                                   [] OTHER -> "quitting"]
  /\ UNCHANGED <<brokerVars, p, world, turn, isPaused, doneClosed, eventsClosed, chans,
                 poller, intake, keyPresses, controlKeys, env, worlds>>

\* 'k' leaving the broker connection open
ShutdownCloseKeepsClient ==
  /\ Running
  /\ main.pc = "shutdown"
  /\ Note("main", "ioIdle", main.currentTurn, <<>>)
  /\ main' = [main EXCEPT !.pc = "quitting"]
  /\ UNCHANGED <<brokerVars, p, world, turn, isPaused, doneClosed, eventsClosed, chans,
                 poller, intake, keyPresses, controlKeys, env, worlds, panic>>

\* handleKey 'k', lines 160-165: client.Close(), ioCheckIdle, wait for ioIdle
ShutdownClose ==
  /\ Running
  /\ main.pc = "shutdown"
  /\ chans' = [chans EXCEPT !.client = "closed"]
  /\ trace' = trace \o << Entry("main", "clientClose", main.currentTurn, <<>>),
                          Entry("main", "ioIdle", main.currentTurn, <<>>) >>
  /\ main' = [main EXCEPT !.pc = "quitting"]
  /\ UNCHANGED <<brokerVars, p, world, turn, isPaused, doneClosed, eventsClosed,
                 poller, intake, keyPresses, controlKeys, env, worlds, panic>>

\* line 328 (finalizeGame) and line 167 (handleKey 'k'):
\* c.events <- StateChange{turn, Quitting}
SendQuitting ==
  /\ Running
  /\ main.pc = "quitting"
  /\ Send("main", "StateChange", main.currentTurn, "Quitting")
  /\ main' = [main EXCEPT !.pc = "close"]
  /\ UNCHANGED <<brokerVars, p, world, turn, isPaused, doneClosed, eventsClosed, chans,
                 poller, intake, keyPresses, controlKeys, env, worlds>>

\* finalizeGame, line 329: close(c.events); the caller returns and the
\* deferred client.Close() runs
CloseAfterFinalize ==
  /\ Running
  /\ main.pc = "close"
  /\ main.via # "k"
  /\ chans' = [chans EXCEPT !.events = @ + 1, !.client = "closed"]
  /\ trace' = trace \o << Entry("main", "closeEvents", main.currentTurn, <<>>),
                          Entry("main", "clientClose", main.currentTurn, <<>>) >>
  /\ main' = [main EXCEPT !.pc = "exited"]
  /\ UNCHANGED <<brokerVars, p, world, turn, isPaused, doneClosed, eventsClosed,
                 poller, intake, keyPresses, controlKeys, env, worlds, panic>>

\* handleKey 'k', lines 169-177: close c.events unless eventsClosed, close done
\* unless doneClosed, return
CloseAfterShutdown ==
  /\ Running
  /\ main.pc = "close"
  /\ main.via = "k"
  /\ chans' = [chans EXCEPT !.events = IF eventsClosed THEN @ ELSE @ + 1,
                            !.done = IF doneClosed THEN @ ELSE @ + 1]
  /\ trace' = trace
              \o (IF eventsClosed THEN <<>>
                  ELSE << Entry("main", "closeEvents", main.currentTurn, <<>>) >>)
              \o (IF doneClosed THEN <<>>
                  ELSE << Entry("main", "closeDone", main.currentTurn, <<>>) >>)
  /\ eventsClosed' = TRUE
  /\ doneClosed' = TRUE
  /\ main' = [main EXCEPT !.pc = "exited"]
  /\ UNCHANGED <<brokerVars, p, world, turn, isPaused,
                 poller, intake, keyPresses, controlKeys, env, worlds, panic>>

(* the alive-count poller, lines 81-98 *)

\* case <-ticker.C: count the live cells and read turn under mu
PollerTick ==
  /\ Running
  /\ poller.pc = "select"
  /\ env.ticksLeft > 0
  /\ env' = [env EXCEPT !.ticksLeft = @ - 1]
  /\ poller' = [pc |-> "send", aliveCount |-> countAlive(world), currentTurn |-> turn]
  /\ UNCHANGED <<brokerVars, p, world, turn, isPaused, main, doneClosed, eventsClosed,
                 chans, intake, keyPresses, controlKeys, trace, worlds, panic>>

\* c.events <- AliveCellsCount
PollerSend ==
  /\ Running
  /\ poller.pc = "send"
  /\ Send("poller", "AliveCellsCount", poller.currentTurn, poller.aliveCount)
  /\ poller' = [poller EXCEPT !.pc = "select"]
  /\ UNCHANGED <<brokerVars, p, world, turn, isPaused, main, doneClosed, eventsClosed,
                 chans, intake, keyPresses, controlKeys, env, worlds>>

\* case <-done: return
PollerDone ==
  /\ Running
  /\ poller.pc = "select"
  /\ chans.done > 0
  /\ poller' = [poller EXCEPT !.pc = "exited"]
  /\ UNCHANGED <<brokerVars, p, world, turn, isPaused, main, doneClosed, eventsClosed,
                 chans, intake, keyPresses, controlKeys, env, trace, worlds, panic>>

(* the key goroutine, lines 104-122 *)

\* the environment delivers the next key of the script on keyPresses, once
\* the key before it has been taken
KeyPress ==
  /\ Running
  /\ env.script # <<>>
  /\ keyPresses = <<>>
  /\ keyPresses' = Append(keyPresses, Head(env.script))
  /\ env' = [env EXCEPT !.script = Tail(@)]
  /\ UNCHANGED <<brokerVars, p, world, turn, isPaused, main, doneClosed, eventsClosed,
                 chans, poller, intake, controlKeys, trace, worlds, panic>>

\* key := <-keyPresses; a 'p' flips isPaused and reads turn under mu
IntakeReceive ==
  /\ Running
  /\ intake.pc = "recv"
  /\ keyPresses # <<>>
  /\ keyPresses' = Tail(keyPresses)
  /\ IF Head(keyPresses) = "p"
     THEN /\ isPaused' = ~isPaused
          /\ intake' = [pc |-> "send", key |-> "p",
                        state |-> IF ~isPaused THEN "Paused" ELSE "Executing",
                        currentTurn |-> turn]
     ELSE /\ intake' = [intake EXCEPT !.pc = "forward", !.key = Head(keyPresses)]
          /\ UNCHANGED isPaused
  /\ UNCHANGED <<brokerVars, p, world, turn, main, doneClosed, eventsClosed,
                 chans, poller, controlKeys, env, trace, worlds, panic>>

\* c.events <- StateChange{currentTurn, state}
IntakeSend ==
  /\ Running
  /\ intake.pc = "send"
  /\ Send("intake", "StateChange", intake.currentTurn, intake.state)
  /\ intake' = [intake EXCEPT !.pc = "recv"]
  /\ UNCHANGED <<brokerVars, p, world, turn, isPaused, main, doneClosed, eventsClosed,
                 chans, poller, keyPresses, controlKeys, env, worlds>>

\* controlKeys <- key: blocks while the 16 slots are taken
IntakeForward ==
  /\ Running
  /\ intake.pc = "forward"
  /\ Len(controlKeys) < ControlKeysCap
  /\ controlKeys' = Append(controlKeys, intake.key)
  /\ intake' = [intake EXCEPT !.pc = "recv"]
  /\ UNCHANGED <<brokerVars, p, world, turn, isPaused, main, doneClosed, eventsClosed,
                 chans, poller, keyPresses, env, trace, worlds, panic>>

\* a step of the key goroutine
IntakeNext == IntakeReceive \/ IntakeSend \/ IntakeForward

(* the turn loop with the broker and its workers behind the call *)

\* the workers registered with the broker, fixed for a run; no key, no tick
InitRun ==
  /\ \E seed \in Seeds : \E T \in 0..MaxTurns : \E n \in 0..MaxWorkers :
     \E im \in Impls :
       /\ impl = im
       /\ p = [Turns |-> T, ImageWidth |-> Len(seed[1]), ImageHeight |-> Len(seed)]
       /\ world = seed
       /\ worlds = <<seed>>
       /\ numWorkers = n
       /\ params = [ImageWidth |-> Len(seed[1]), ImageHeight |-> Len(seed), World |-> seed]
  /\ env = [script |-> <<>>, ticksLeft |-> 0, ok |-> {}]
  /\ turn = 0
  /\ isPaused = FALSE
  /\ main = [NoMain EXCEPT !.pc = "start"]
  /\ doneClosed = FALSE
  /\ eventsClosed = FALSE
  /\ chans = [done |-> 0, events |-> 0, client |-> "none"]
  /\ poller = NoPoller
  /\ intake = NoIntake
  /\ keyPresses = <<>>
  /\ controlKeys = <<>>
  /\ trace = <<>>
  /\ panic = ""
  /\ bpc = "idle"
  /\ calls = 0
  /\ tasks = <<>>
  /\ wstate = <<>>
  /\ newWorld = <<>>
  /\ currentWorld = <<>>
  /\ reply = NoReply
  /\ aliveReply = NoAliveReply

\* the number of ProcessTurn calls the turn loop has issued
Issued == Cardinality({i \in DOMAIN trace : trace[i].type = "ProcessTurnCall"})

\* the call in flight reaches Broker.ProcessTurn with the controller's grid
RunEnter ==
  /\ main.pc = "call"
  /\ calls < Issued
  /\ Enter(world)

\* Broker.ProcessTurn has returned for the call in flight
Replied == main.pc = "call" /\ calls = Issued /\ bpc = "idle"

RunReturnOK ==
  /\ Replied
  /\ reply.err = ""
  /\ ReturnOK(reply.world)

RunReturnError ==
  /\ Replied
  /\ reply.err # ""
  /\ ReturnError(reply.err)

NextRun ==
  \/ Startup
  \/ Dial
  \/ CallProcessTurn
  \/ RunEnter
  \/ \E i \in 1..numWorkers : WorkerMerge(i)
  \/ \E i \in 1..numWorkers : WorkerFail(i)
  \/ ProcessTurnCommit
  \/ ProcessTurnReturn
  \/ RunReturnOK
  \/ RunReturnError
  \/ CommitTurn
  \/ SendCellsFlipped
  \/ SendTurnComplete
  \/ MaxTurnsReached
  \/ SendFinalTurnComplete
  \/ SaveOutput
  \/ SendImageOutputComplete
  \/ SendQuitting
  \/ CloseAfterFinalize

SpecRun == InitRun /\ [][NextRun]_vars

(* the distributor of broker/broker.go: its poller asks the broker *)

\* the run of broker/broker.go's distributor against the Broker of part_001:
\* the workers are fixed for a run, the ticker may fire, no key is pressed
InitCount ==
  /\ \E seed \in Seeds : \E T \in 0..MaxTurns : \E n \in 0..2 :
       /\ p = [Turns |-> T, ImageWidth |-> Len(seed[1]), ImageHeight |-> Len(seed)]
       /\ world = seed
       /\ worlds = <<seed>>
       /\ numWorkers = n
       /\ params = [ImageWidth |-> Len(seed[1]), ImageHeight |-> Len(seed), World |-> seed]
  /\ impl = "part_001"
  /\ env = [script |-> <<>>, ticksLeft |-> MaxTicks, ok |-> {}]
  /\ turn = 0
  /\ isPaused = FALSE
  /\ main = [NoMain EXCEPT !.pc = "start", !.src = "broker.go"]
  /\ doneClosed = FALSE
  /\ eventsClosed = FALSE
  /\ chans = [done |-> 0, events |-> 0, client |-> "none"]
  /\ poller = NoPoller
  /\ intake = NoIntake
  /\ keyPresses = <<>>
  /\ controlKeys = <<>>
  /\ trace = <<>>
  /\ panic = ""
  /\ bpc = "idle"
  /\ calls = 0
  /\ tasks = <<>>
  /\ wstate = <<>>
  /\ newWorld = <<>>
  /\ currentWorld = <<>>
  /\ reply = NoReply
  /\ aliveReply = NoAliveReply

\* broker.go lines 229-233: case <-ticker.C: Broker.GetAliveCellsCount answers
\* the count of the broker's cache
PollerQuery ==
  /\ Running
  /\ main.src = "broker.go"
  /\ poller.pc = "select"
  /\ env.ticksLeft > 0
  /\ chans.client = "open"
  /\ env' = [env EXCEPT !.ticksLeft = @ - 1]
  /\ poller' = [poller EXCEPT !.pc = "send", !.aliveCount = countAlive(currentWorld)]
  /\ aliveReply' = [count |-> countAlive(currentWorld), phase |-> bpc]
  /\ UNCHANGED <<impl, params, numWorkers, bpc, calls, tasks, wstate, newWorld,
                 currentWorld, reply>>
  /\ UNCHANGED <<p, world, turn, isPaused, main, doneClosed, eventsClosed,
                 chans, intake, keyPresses, controlKeys, trace, worlds, panic>>

\* broker.go lines 232-238: the call fails on the closed connection: the
\* error is printed and no event is sent
PollerQueryError ==
  /\ Running
  /\ main.src = "broker.go"
  /\ poller.pc = "select"
  /\ env.ticksLeft > 0
  /\ chans.client = "closed"
  /\ env' = [env EXCEPT !.ticksLeft = @ - 1]
  /\ UNCHANGED <<brokerVars, p, world, turn, isPaused, main, doneClosed, eventsClosed,
                 chans, poller, intake, keyPresses, controlKeys, trace, worlds, panic>>

\* broker.go line 234: c.events <- AliveCellsCount{turn, aliveCount}; turn is
\* read here, without mu
PollerSendOld ==
  /\ Running
  /\ main.src = "broker.go"
  /\ poller.pc = "send"
  /\ Send("poller", "AliveCellsCount", turn, poller.aliveCount)
  /\ poller' = [poller EXCEPT !.pc = "select", !.currentTurn = turn]
  /\ UNCHANGED <<brokerVars, p, world, turn, isPaused, main, doneClosed, eventsClosed,
                 chans, intake, keyPresses, controlKeys, env, worlds>>

\* finalizeGame of broker/broker.go, lines 460-465: wait for the IO to be
\* idle, then c.events <- StateChange{turn, Quitting}
SendQuittingOld ==
  /\ Running
  /\ main.src = "broker.go"
  /\ main.pc = "quitting"
  /\ IF chans.events > 0
     THEN /\ panic' = "send on closed channel"
          /\ trace' = Append(trace, Entry("main", "ioIdle", main.currentTurn, <<>>))
     ELSE /\ trace' = trace \o << Entry("main", "ioIdle", main.currentTurn, <<>>),
                                  Entry("main", "StateChange", main.currentTurn, "Quitting") >>
          /\ UNCHANGED panic
  /\ main' = [main EXCEPT !.pc = "close"]
  /\ UNCHANGED <<brokerVars, p, world, turn, isPaused, doneClosed, eventsClosed, chans,
                 poller, intake, keyPresses, controlKeys, env, worlds>>

NextCount ==
  \/ Startup
  \/ Dial
  \/ CallProcessTurn
  \/ RunEnter
  \/ \E i \in 1..numWorkers : WorkerMerge(i)
  \/ \E i \in 1..numWorkers : WorkerFail(i)
  \/ ProcessTurnCommit
  \/ ProcessTurnReturn
  \/ RunReturnOK
  \/ RunReturnError
  \/ CommitTurn
  \/ SendCellsFlipped
  \/ SendTurnComplete
  \/ MaxTurnsReached
  \/ SendFinalTurnComplete
  \/ SaveOutputOld
  \/ SendImageOutputComplete
  \/ SendQuittingOld
  \/ CloseAfterFinalize
  \/ PollerQuery
  \/ PollerQueryError
  \/ PollerSendOld
  \/ PollerDone

SpecCount == InitCount /\ [][NextCount]_vars

(* saveWorld on its own: both sources, every grid, called for key 's' *)

\* handleKey 's' has copied world and turn and calls saveWorld
InitSave ==
  /\ \E s \in Shapes : \E g \in Grids(s[2], s[1]) : \E t \in 0..MaxTurns :
     \E f \in {"distributor.go", "broker.go"} :
       /\ p = [Turns |-> MaxTurns + 1, ImageWidth |-> s[1], ImageHeight |-> s[2]]
       /\ world = g
       /\ worlds = <<g>>
       /\ turn = t
       /\ main = [NoMain EXCEPT !.pc = "save", !.via = "s", !.worldCopy = g,
                                !.currentTurn = t, !.src = f]
       /\ params = [ImageWidth |-> s[1], ImageHeight |-> s[2], World |-> g]
  /\ isPaused = FALSE
  /\ doneClosed = FALSE
  /\ eventsClosed = FALSE
  /\ chans = [done |-> 0, events |-> 0, client |-> "open"]
  /\ poller = NoPoller
  /\ intake = NoIntake
  /\ keyPresses = <<>>
  /\ controlKeys = <<>>
  /\ env = [script |-> <<>>, ticksLeft |-> 0, ok |-> {}]
  /\ trace = <<>>
  /\ panic = ""
  /\ impl = "part_001"
  /\ numWorkers = 0
  /\ bpc = "idle"
  /\ calls = 0
  /\ tasks = <<>>
  /\ wstate = <<>>
  /\ newWorld = <<>>
  /\ currentWorld = <<>>
  /\ reply = NoReply
  /\ aliveReply = NoAliveReply

NextSave ==
  \/ SaveOutput
  \/ SaveOutputOld
  \/ SendImageOutputComplete

SpecSave == InitSave /\ [][NextSave]_vars

Next ==
  \/ Startup
  \/ Dial
  \/ DialError
  \/ HandleSave
  \/ HandleQuit
  \/ HandleShutdown
  \/ HandleOther
  \/ LoopPaused
  \/ CallProcessTurn
  \/ ProcessTurnOK
  \/ ProcessTurnError
  \/ CommitTurn
  \/ SendCellsFlipped
  \/ SendTurnComplete
  \/ MaxTurnsReached
  \/ SendFinalTurnComplete
  \/ SaveOutput
  \/ SendImageOutputComplete
  \/ ShutdownClose
  \/ SendQuitting
  \/ CloseAfterFinalize
  \/ CloseAfterShutdown
  \/ PollerTick
  \/ PollerSend
  \/ PollerDone
  \/ KeyPress
  \/ IntakeReceive
  \/ IntakeSend
  \/ IntakeForward

Spec == InitCtl /\ [][Next]_vars

\* the steps of the distributor goroutine itself
MainNext ==
  \/ Startup
  \/ Dial
  \/ DialError
  \/ HandleSave
  \/ HandleQuit
  \/ HandleShutdown
  \/ HandleOther
  \/ LoopPaused
  \/ CallProcessTurn
  \/ ProcessTurnOK
  \/ ProcessTurnError
  \/ CommitTurn
  \/ SendCellsFlipped
  \/ SendTurnComplete
  \/ MaxTurnsReached
  \/ SendFinalTurnComplete
  \/ SaveOutput
  \/ SendImageOutputComplete
  \/ ShutdownClose
  \/ SendQuitting
  \/ CloseAfterFinalize
  \/ CloseAfterShutdown

\* the controller under the Go scheduler: a goroutine that can run does run,
\* the event consumer takes every event offered and the IO answers; the
\* ticker and the keyboard owe nothing
SpecLive ==
  /\ InitCtl
  /\ [][Next]_vars
  /\ WF_vars(MainNext)
  /\ WF_vars(PollerSend)
  /\ WF_vars(PollerDone)
  /\ WF_vars(IntakeNext)


(* ---------------------------------------------------------------------- *)
(* Claims about the broker and the worker, checked under SpecBroker.      *)
(* ---------------------------------------------------------------------- *)

\* the transition rule as the specification states it
LifeRule(cell, n) ==
  IF (cell = Alive /\ n \in {2, 3}) \/ (cell # Alive /\ n = 3) THEN Alive ELSE Dead

\* live cells among the 8 toroidal neighbours of (x, y) in the whole grid
TorusNeighbours(grid, x, y, W, H) ==
  Cardinality({d \in Offsets :
                 grid[((y + d[2]) % H) + 1][((x + d[1]) % W) + 1] = Alive})

\* the next generation of the whole grid in one unpartitioned pass
NextGeneration(grid, W, H) ==
  [y \in 1..H |-> [x \in 1..W |->
     LifeRule(grid[y][x], TorusNeighbours(grid, x - 1, y - 1, W, H))]]

AllMerged == \A i \in DOMAIN wstate : wstate[i] = "merged"

Finished == bpc = "committed" \/ (bpc = "idle" /\ reply.err = "")

\* C1: with 1 <= N <= H workers whose calls all succeed, the grid ProcessTurn
\* of part_001 builds, commits and returns is cell for cell the toroidal next
\* generation of its input grid.
C1_MergeEquivalence ==
  (/\ impl = "part_001"
   /\ numWorkers >= 1
   /\ numWorkers <= params.ImageHeight
   /\ Finished
   /\ AllMerged)
  => /\ newWorld = NextGeneration(params.World, params.ImageWidth, params.ImageHeight)
     /\ currentWorld = newWorld
     /\ (bpc = "idle" => reply.world = newWorld)

\* a 3 x 3 grid split over 2 workers (bands of 1 and 2 rows), returned and
\* different from its input
C1_Witness ==
  /\ impl = "part_001"
  /\ numWorkers = 2
  /\ params.ImageHeight = 3
  /\ params.ImageWidth = 3
  /\ bpc = "idle"
  /\ reply.err = ""
  /\ AllMerged
  /\ countAlive(params.World) = 3
  /\ countAlive(reply.world) = 9

\* C2: the bands ProcessTurn assigns in registry order (both broker sources)
\* start at 0, each starts where the one before ends, the last ends at H, and
\* every row of [0,H) lies in exactly one band, for every H >= 1 and N >= 1.
C2_Partition ==
  tasks # <<>> =>
    LET n == Len(tasks)
        H == params.ImageHeight
    IN  /\ n = numWorkers
        /\ tasks[1].StartY = 0
        /\ \A i \in 2..n : tasks[i].StartY = tasks[i - 1].EndY
        /\ \A i \in 1..n : tasks[i].StartY <= tasks[i].EndY
        /\ tasks[n].EndY = H
        /\ \A y \in 0..(H - 1) :
             Cardinality({i \in 1..n : tasks[i].StartY <= y /\ y < tasks[i].EndY}) = 1

\* more workers than rows: the leading bands are empty and the last takes all
C2_Witness ==
  /\ tasks # <<>>
  /\ numWorkers = 3
  /\ params.ImageHeight = 2
  /\ tasks[1].EndY = 0
  /\ tasks[3].StartY = 0
  /\ tasks[3].EndY = 2

\* the buffer layout Worker.ProcessPart reads, for band [s, e) of grid grid
HaloLayout(t, grid, H) ==
  LET h == t.EndY - t.StartY
  IN  /\ Len(t.WorldPart) = h + 2
      /\ t.WorldPart[1] = grid[((t.StartY - 1 + H) % H) + 1]
      /\ \A k \in 1..h : t.WorldPart[k + 1] = grid[t.StartY + k]
      /\ t.WorldPart[h + 2] = grid[(t.EndY % H) + 1]

\* C3: in both ProcessTurn implementations every Task's buffer has the row
\* above the band first, the band's rows at indices 1..h and the row below
\* the band last.
C3_HaloLayout ==
  \A i \in DOMAIN tasks : HaloLayout(tasks[i], params.World, params.ImageHeight)

\* the same for the Broker of part_001 alone
C3_HaloLayoutPart001 ==
  impl = "part_001" => C3_HaloLayout

\* live cells among the 8 cells around buffer cell (x, by): buffer rows by-1,
\* by, by+1 and columns (x-1) mod W, x, (x+1) mod W, the cell itself excluded
BufferNeighbours(part, x, by, W) ==
  Cardinality({d \in Offsets : part[by + d[2] + 1][((x + d[1]) % W) + 1] = Alive})

\* a task Worker.ProcessPart accepts
ValidTask(t) ==
  /\ t.EndY - t.StartY > 0
  /\ Len(t.WorldPart) >= (t.EndY - t.StartY) + 2

\* C4: for a valid task the rows a worker returned (and the broker merged)
\* hold, for every band cell, the standard transition over the 8 neighbours
\* in buffer rows y-1, y, y+1 with the columns wrapping, and the columns read
\* all lie in [0,W).
C4_WorkerTransition ==
  \A i \in DOMAIN tasks :
    (wstate[i] = "merged" /\ bpc = "dispatched") =>
      LET t == tasks[i]
          W == params.ImageWidth
      IN  /\ ValidTask(t)
          /\ \A y \in 0..(t.EndY - t.StartY - 1) : \A x \in 0..(W - 1) :
               /\ newWorld[t.StartY + y + 1][x + 1]
                    = LifeRule(t.WorldPart[y + 2][x + 1],
                               BufferNeighbours(t.WorldPart, x, y + 1, W))
               /\ \A dx \in -1..1 : WrapX(x, dx, W) \in 0..(W - 1)

\* a live cell with 3 live neighbours survives, and a dead cell in column 0 is
\* born from three live cells in column W-1
C4_Witness ==
  /\ bpc = "dispatched"
  /\ params.ImageWidth = 3
  /\ \E i \in DOMAIN tasks :
       /\ wstate[i] = "merged"
       /\ LET t == tasks[i]
          IN  /\ t.EndY - t.StartY = 1
              /\ \A k \in 1..3 : t.WorldPart[k] = <<Dead, Dead, Alive>>
              /\ newWorld[t.StartY + 1][1] = Alive
              /\ newWorld[t.StartY + 1][3] = Alive

\* C9: a GetAliveCellsCount that runs while a ProcessTurn of part_001 is in
\* flight replies the live-cell count of the turn's input grid (the cache
\* until the commit) or of the fully merged grid (the cache from the commit
\* on), never that of a partly merged grid, and the call changes nothing but
\* its own reply.
C9_AtomicCache ==
  /\ [](/\ aliveReply.phase = "dispatched"
          => aliveReply.count = countAlive(params.World)
        /\ aliveReply.phase = "committed"
          => (/\ bpc \in {"committed", "idle"}
              /\ aliveReply.count = countAlive(newWorld)))
  /\ [][(aliveReply' # aliveReply /\ aliveReply' # NoAliveReply)
          => UNCHANGED <<impl, params, numWorkers, bpc, calls, tasks, wstate,
                         newWorld, currentWorld, reply>>]_vars

\* a reply received while one band is merged and another is not, the partly
\* merged grid holding a different number of live cells
C9_Witness ==
  /\ aliveReply.phase = "dispatched"
  /\ bpc = "dispatched"
  /\ \E i, j \in DOMAIN wstate : wstate[i] = "merged" /\ wstate[j] = "dispatched"
  /\ countAlive(newWorld) # aliveReply.count
  /\ countAlive(newWorld) > 0

(* the caller's view of Broker.ProcessTurn used by the controller is
   the broker's own result: when a turn has finished, newWorld is the merge
   of the workers that answered *)
ProcessTurnSummary ==
  (bpc = "committed") =>
     newWorld = ProcessTurnResult(impl, params, numWorkers,
                                  {i \in 1..numWorkers : wstate[i] = "merged"}).world

IsEvent(e) == e.type \in EventTypes

\* the positions of main's entries of one type and turn in the history
MainIdx(type, t) ==
  {i \in DOMAIN trace : trace[i].by = "main" /\ trace[i].type = type /\ trace[i].turn = t}

\* the positions of all entries of one type
Idx(type) == {i \in DOMAIN trace : trace[i].type = type}

\* the ProcessTurn calls that returned without error
Successes == {i \in Idx("ProcessTurnReturn") : trace[i].data = ""}

(* C5 -- turn monotonicity: turn starts at 0, changes only by the +1 of the
   commit that follows a successful ProcessTurn return, so it equals the
   number of successful returns (less the one whose commit is pending), and
   it never exceeds p.Turns *)
C5_TurnMonotonic ==
  /\ [](/\ turn = Cardinality(Successes) - (IF main.pc = "commit" THEN 1 ELSE 0)
        /\ 0 <= turn
        /\ turn <= p.Turns)
  /\ [][turn' = turn \/ (turn' = turn + 1 /\ main.pc = "commit")]_vars

C5_Witness ==
  /\ turn = 2
  /\ Cardinality(Successes) = 2
  /\ p.Turns = 2
  /\ main.pc = "loop"

\* turn t has been committed and its events sent
TurnEmitted(t) == t < turn \/ (t = turn /\ main.pc \notin {"flipped", "turnComplete"})

(* C6 -- per-turn event order: for every committed turn t >= 1, CellsFlipped(t)
   is sent iff the old and the new grid differ, carries the differing cells
   and precedes TurnComplete(t); exactly one TurnComplete(t) is sent, after
   the successful return of the call that produced t and before any later
   call; the TurnComplete events are 0, 1, 2, ... in this order *)
C6_EventOrder ==
  LET tcs == Idx("TurnComplete")
      cfs == {i \in Idx("CellsFlipped") : trace[i].by = "main"}
      rets == Successes
      issued == Idx("ProcessTurnCall")
  IN  /\ \A t \in 1..turn :
           LET tc == {i \in tcs : trace[i].turn = t}
               cf == {i \in cfs : trace[i].turn = t}
               diff == FlippedFrom(worlds[t], worlds[t + 1], p.ImageWidth, p.ImageHeight, 0)
               ret == {i \in rets : trace[i].turn = t - 1}
               later == {i \in issued : trace[i].turn >= t}
           IN  /\ Cardinality(tc) <= 1
               /\ Cardinality(cf) <= 1
               /\ \A i \in cf : trace[i].data = diff /\ diff # <<>>
               /\ \A i \in cf : \A j \in tc : i < j
               /\ Cardinality(ret) = 1
               /\ \A i \in ret : \A j \in tc \cup cf : i < j
               /\ \A j \in tc \cup cf : \A k \in later : j < k
               /\ IF TurnEmitted(t)
                  THEN Cardinality(tc) = 1 /\ (cf # {} <=> diff # <<>>)
                  ELSE tc = {}
      /\ \A i \in tcs : /\ trace[i].by = "main"
                         /\ trace[i].turn = Cardinality({j \in tcs : j < i})

C6_Witness ==
  /\ MainIdx("TurnComplete", 2) # {}
  /\ MainIdx("CellsFlipped", 2) # {}
  /\ MainIdx("CellsFlipped", 1) # {}

(* C7 -- pause suspends turns: after a StateChange to Paused no TurnComplete
   is sent until a StateChange to Executing has been sent *)
C7_PauseSuspendsTurns ==
  \A i \in Idx("StateChange") : \A j \in Idx("TurnComplete") :
     (trace[i].data = "Paused" /\ i < j) =>
        \E k \in Idx("StateChange") : i < k /\ k < j /\ trace[k].data = "Executing"

(* C8 -- pause responsiveness: while a ProcessTurn call is in flight and a
   pause key waits on keyPresses, the key goroutine can take a step without
   the call returning *)
C8_PauseResponsive ==
  (main.pc = "call" /\ \E i \in DOMAIN keyPresses : keyPresses[i] = "p")
     => ENABLED IntakeNext

(* C10 -- finalization on every termination path: when the run has ended by
   quit, by shutdown or at max turns, the history holds FinalTurnComplete with
   the final turn and the alive cells of the grid, then the snapshot and the
   idle signal, then StateChange to Quitting as the last event, then the close
   of events *)
C10_Finalization ==
  (main.pc = "exited" /\ main.via \in {"q", "k", "max"}) =>
     \E f \in Idx("FinalTurnComplete") : \E o \in Idx("ioOutput") : \E d \in Idx("ioIdle") :
     \E q \in Idx("StateChange") : \E c \in Idx("closeEvents") :
        /\ f < o /\ o < d /\ d < q /\ q < c
        /\ trace[f] = Entry("main", "FinalTurnComplete", turn, getAliveCells(world))
        /\ trace[o] = Entry("main", "ioOutput", turn, world)
        /\ trace[q] = Entry("main", "StateChange", turn, "Quitting")
        /\ \A k \in q + 1..Len(trace) : ~IsEvent(trace[k])

(* C11 -- idempotent teardown: whatever keys arrive and however the run ends
   (quit, shutdown, failed turn, max turns), done is closed at most once and
   events is closed at most once, and the history holds as many close entries *)
C11_IdempotentTeardown ==
  /\ chans.done <= 1
  /\ chans.events <= 1
  /\ Cardinality(Idx("closeDone")) = chans.done
  /\ Cardinality(Idx("closeEvents")) = chans.events
  /\ main.pc = "exited" /\ main.via \in {"q", "k", "max", "error"} => chans.done = 1
  /\ main.pc = "exited" /\ main.via \in {"q", "k", "max"} => chans.events = 1

C11_Witness ==
  /\ main.pc = "exited"
  /\ main.via = "k"
  /\ chans.done = 1
  /\ chans.events = 1
  /\ Cardinality(Idx("StateChange")) >= 3

(* C12 -- save completes before it is announced: every ImageOutputComplete
   follows an ioOutput of the same turn that handed all W*H cells of the copy
   and, after it, the idle signal of the output *)
C12_SaveBeforeAnnounce ==
  \A j \in Idx("ImageOutputComplete") :
     \E o \in Idx("ioOutput") : \E d \in Idx("ioIdle") :
        /\ o < d /\ d < j
        /\ trace[o].turn = trace[j].turn
        /\ Len(trace[o].data) = p.ImageHeight
        /\ \A y \in 1..p.ImageHeight : Len(trace[o].data[y]) = p.ImageWidth

IsMain(e) == e.by = "main"

\* what the turn loop does once it has taken 'k' at turn t with grid g
ShutdownSteps(t, g) ==
  << Entry("main", "ioOutput", t, g),
     Entry("main", "ioIdle", t, <<>>),
     Entry("main", "ImageOutputComplete", t, <<p.ImageWidth, p.ImageHeight, t>>),
     Entry("main", "clientClose", t, <<>>),
     Entry("main", "ioIdle", t, <<>>),
     Entry("main", "StateChange", t, "Quitting"),
     Entry("main", "closeEvents", t, <<>>),
     Entry("main", "closeDone", t, <<>>) >>

\* how many of these steps are done at each position of the shutdown path
ShutdownDone ==
  [pc \in {"save", "saveDone", "shutdown", "quitting", "close", "exited"} |->
     CASE pc = "save" -> 0
       [] pc = "saveDone" -> 2
       [] pc = "shutdown" -> 3
       [] pc = "quitting" -> 5
       [] pc = "close" -> 6
       [] pc = "exited" -> 8]

(* C13 -- shutdown from any state: once the turn loop has taken 'k' (run
   executing or paused, turn < p.Turns) it does, in this order and nothing
   else: snapshot of the current grid, idle, ImageOutputComplete, close of
   the broker connection, idle, StateChange to Quitting, the closes, exit;
   grid and turn stay as they were, so no ProcessTurn call and no TurnComplete
   follows, and no step of this path waits for anything but itself *)
C13_Shutdown ==
  main.via = "k" =>
    /\ main.pc \in DOMAIN ShutdownDone
    /\ turn = main.currentTurn
    /\ turn < p.Turns
    /\ world = main.worldCopy
    /\ LET m == SelectSeq(trace, IsMain)
           n == ShutdownDone[main.pc]
       IN  /\ Len(m) >= n
           /\ SubSeq(m, Len(m) - n + 1, Len(m)) = SubSeq(ShutdownSteps(turn, world), 1, n)
    /\ main.pc = "exited" => chans.client = "closed" /\ chans.events = 1 /\ chans.done = 1
    /\ main.pc # "exited" =>
         ENABLED (SaveOutput \/ SendImageOutputComplete \/ ShutdownClose
                  \/ SendQuitting \/ CloseAfterShutdown)

C13_Witness ==
  /\ main.via = "k"
  /\ main.pc = "exited"
  /\ isPaused
  /\ turn = 1

(* C14 -- no workers: with zero registered workers Broker.ProcessTurn builds
   no task and dispatches no call, answers "no workers available" with no
   grid, and the controller that receives it keeps its grid and its turn and
   sends no TurnComplete beyond the initial one *)
C14_NoWorkers ==
  numWorkers = 0 =>
    /\ tasks = <<>>
    /\ wstate = <<>>
    /\ bpc = "idle"
    /\ calls >= 1 => reply = [err |-> "no workers available", world |-> <<>>]
    /\ \A i \in Idx("ProcessTurnReturn") : trace[i].data = "no workers available"
    /\ turn = 0
    /\ world = worlds[1]
    /\ Len(worlds) = 1
    /\ \A i \in Idx("TurnComplete") : trace[i].turn = 0
    /\ Cardinality(Idx("TurnComplete")) <= 1
    /\ \A i \in Idx("CellsFlipped") : trace[i].turn = 0

C14_Witness ==
  /\ numWorkers = 0
  /\ calls = 1
  /\ main.pc = "exited"
  /\ main.via = "error"
  /\ Idx("ProcessTurnReturn") # {}

\* the ProcessTurn calls that returned an error
Failures == {i \in Idx("ProcessTurnReturn") : trace[i].data # ""}

(* C15 -- a failed turn ends the run without finalizing: once a ProcessTurn
   call has returned an error the controller has closed done and exited, grid
   and turn are those of before the call, and the history holds after the
   failure no further call, no CellsFlipped, TurnComplete, FinalTurnComplete,
   ImageOutputComplete, StateChange to Quitting, and no snapshot; events stays
   open *)
C15_FailedTurn ==
  \A r \in Failures :
    /\ main.pc = "exited"
    /\ main.via = "error"
    /\ turn = trace[r].turn
    /\ Len(worlds) = turn + 1
    /\ world = worlds[turn + 1]
    /\ chans.done = 1
    /\ chans.events = 0
    /\ \A k \in r + 1..Len(trace) :
         /\ trace[k].type \notin {"ProcessTurnCall", "ProcessTurnReturn", "CellsFlipped",
                                  "TurnComplete", "FinalTurnComplete",
                                  "ImageOutputComplete", "ioOutput", "closeEvents"}
         /\ trace[k].type = "StateChange" => trace[k].data # "Quitting"

C15_Witness ==
  \E r \in Failures :
    /\ trace[r].turn = 1
    /\ \E k \in r + 1..Len(trace) : trace[k].type = "StateChange"

\* ProcessTurn has returned to its caller
Returned == bpc = "idle" /\ calls >= 1

(* C16 -- per-band failure is non-fatal: with N >= 1 workers, whichever calls
   fail, ProcessTurn returns nil and a grid of H rows of width W in which the
   rows of a failed band are all dead and the rows of a band whose call
   succeeded are the rows that worker returned; part_001 has stored this grid
   as its cache *)
C16_BandFailureNonFatal ==
  (numWorkers >= 1 /\ Returned) =>
    /\ reply.err = ""
    /\ Len(reply.world) = params.ImageHeight
    /\ \A y \in 1..params.ImageHeight : Len(reply.world[y]) = params.ImageWidth
    /\ \A i \in 1..numWorkers :
         /\ wstate[i] \in {"merged", "failed"}
         /\ \A y \in tasks[i].StartY..tasks[i].EndY - 1 :
              reply.world[y + 1] =
                 IF wstate[i] = "failed"
                 THEN [x \in 1..params.ImageWidth |-> Dead]
                 ELSE ProcessPart(tasks[i]).rows[y - tasks[i].StartY + 1]
    /\ impl = "part_001" => currentWorld = reply.world

C16_Witness ==
  /\ numWorkers >= 2
  /\ Returned
  /\ impl = "part_001"
  /\ \E i, j \in 1..numWorkers :
       /\ wstate[i] = "failed"
       /\ wstate[j] = "merged"
       /\ ProcessPart(tasks[i]).err = ""
       /\ \E y \in DOMAIN ProcessPart(tasks[i]).rows :
            \E x \in 1..params.ImageWidth : ProcessPart(tasks[i]).rows[y][x] = Alive

(* C17 -- task validation errors fail the turn: when a worker has rejected a
   task of the turn as malformed, ProcessTurn returns an error and no grid *)
C17_ValidationFailsTurn ==
  (Returned /\ \E i \in DOMAIN tasks : ProcessPart(tasks[i]).err # "") =>
     reply.err # "" /\ reply.world = <<>>

(* C18 -- worker validation and output shape: ProcessPart answers an error
   and no rows when EndY - StartY <= 0 (this check comes first) and when the
   buffer has fewer than EndY - StartY + 2 rows; for every other task it
   answers EndY - StartY rows of the buffer's width, row i being the next
   state of buffer row i + 1, and the task's buffer is not changed *)
C18_WorkerContract ==
  /\ [](wstate[1] # "dispatched" =>
          LET t == tasks[1]
              h == t.EndY - t.StartY
          IN  IF h <= 0
              THEN reply = [err |-> "invalid task: height <= 0", world |-> <<>>]
              ELSE IF Len(t.WorldPart) < h + 2
              THEN reply = [err |-> "invalid task: worldPart too small", world |-> <<>>]
              ELSE /\ reply.err = ""
                   /\ Len(reply.world) = h
                   /\ \A i \in 0..h - 1 :
                        /\ Len(reply.world[i + 1]) = Len(t.WorldPart[1])
                        /\ \A x \in 0..Len(t.WorldPart[1]) - 1 :
                             reply.world[i + 1][x + 1] =
                                LifeRule(t.WorldPart[i + 2][x + 1],
                                         BufferNeighbours(t.WorldPart, x, i + 1,
                                                          Len(t.WorldPart[1]))))
  /\ [][tasks' = tasks]_vars

C18_Witness ==
  /\ wstate[1] = "returned"
  /\ tasks[1].EndY - tasks[1].StartY = 2
  /\ Len(tasks[1].WorldPart) > 4
  /\ \E x \in DOMAIN reply.world[2] : reply.world[2][x] = Alive

(* C19 -- local broker equals distributed broker: when every worker call of
   a ProcessTurn has succeeded, the grid the call returns is the grid
   LocalBroker.ProcessTurn returns for the same parameters, live cells on the
   first and last row and column included *)
C19_LocalEqualsDistributed ==
  (numWorkers >= 1 /\ Returned /\ AllMerged) => reply = LocalProcessTurn(params)

\* the rows of newWorld that lie in the band of worker i
BandRows(i) == [y \in tasks[i].StartY + 1..tasks[i].EndY |-> newWorld[y]]

(* C20 -- fan-out/fan-in barrier: a ProcessTurn call with N >= 1 workers has
   one task and one call per worker; a call that has finished stays finished
   for the rest of the ProcessTurn call; the cache is stored and the reply
   given only when no call is outstanding; and at every moment the band of a
   merged call holds the rows that call returned while the band of every
   other call is still all dead, whatever the order of the merges *)
C20_Barrier ==
  /\ []((numWorkers >= 1 /\ calls >= 1) =>
          /\ Len(tasks) = numWorkers
          /\ DOMAIN wstate = 1..numWorkers
          /\ (bpc = "dispatched" => reply = NoReply)
          /\ (bpc = "dispatched" /\ impl = "part_001" => currentWorld = params.World)
          /\ (bpc \in {"committed", "idle"} =>
                \A i \in 1..numWorkers : wstate[i] \in {"merged", "failed"})
          /\ \A i \in 1..numWorkers :
               BandRows(i) =
                 IF wstate[i] = "merged"
                 THEN [y \in tasks[i].StartY + 1..tasks[i].EndY |->
                         ProcessPart(tasks[i]).rows[y - tasks[i].StartY]]
                 ELSE [y \in tasks[i].StartY + 1..tasks[i].EndY |->
                         [x \in 1..params.ImageWidth |-> Dead]])
  /\ [][\A i \in DOMAIN wstate :
          (wstate[i] # "dispatched" /\ calls' = calls) =>
             (i \in DOMAIN wstate' /\ wstate'[i] = wstate[i])]_vars

C20_Witness ==
  /\ bpc = "dispatched"
  /\ wstate = <<"dispatched", "merged", "dispatched">>
  /\ \E x \in DOMAIN newWorld[2] : newWorld[2][x] = Alive

(* C21 -- no emission after close: whatever the interleaving of the turn
   loop, the poller and the key goroutine, no goroutine sends on c.events
   once the channel has been closed: no send ever panics *)
C21_NoSendAfterClose == panic = ""

(* C22 -- alive-count events are consistent: every AliveCellsCount{t, c}
   event has c equal to the number of live cells of the controller's grid
   after exactly t completed turns, t = 0 before the first call included *)
C22_AliveCountConsistent ==
  \A i \in DOMAIN trace :
    trace[i].type = "AliveCellsCount" =>
      /\ trace[i].turn + 1 \in DOMAIN worlds
      /\ trace[i].data = countAlive(worlds[trace[i].turn + 1])

(* C23 -- event turn numbers never go backwards: of any two events sent on
   c.events, the later one carries a turn number at least as large as the
   earlier one, whatever the interleaving of the turn loop, the poller and
   the key goroutine *)
C23_EventTurnsNonDecreasing ==
  \A i, j \in DOMAIN trace :
    (i < j /\ IsEvent(trace[i]) /\ IsEvent(trace[j])) => trace[i].turn <= trace[j].turn

\* the CellsFlipped events before entry i that list cell (x, y)
FlipsOf(i, x, y) ==
  {k \in 1..i - 1 :
     /\ trace[k].type = "CellsFlipped"
     /\ \E m \in DOMAIN trace[k].data : trace[k].data[m] = <<x, y>>}

\* the all-dead grid with every cell listed before entry i toggled
Toggled(i) ==
  [y \in 1..p.ImageHeight |-> [x \in 1..p.ImageWidth |->
     IF Cardinality(FlipsOf(i, x - 1, y - 1)) % 2 = 1 THEN Alive ELSE Dead]]

(* C24 -- flip events reconstruct the grid: at the moment TurnComplete{t} is
   sent (it is then the latest entry of the history), toggling on an all-dead
   grid every cell of the CellsFlipped events sent so far gives the
   controller's grid after t turns; and no CellsFlipped event lists a cell
   twice *)
C24_FlipsReconstruct ==
  /\ (trace # <<>> /\ trace[Len(trace)].type = "TurnComplete") =>
        Toggled(Len(trace)) = worlds[trace[Len(trace)].turn + 1]
  /\ \A i \in DOMAIN trace :
       trace[i].type = "CellsFlipped" =>
         \A m, n \in DOMAIN trace[i].data :
           trace[i].data[m] = trace[i].data[n] => m = n

C24_Witness ==
  /\ trace # <<>>
  /\ trace[Len(trace)].type = "TurnComplete"
  /\ trace[Len(trace)].turn = 2
  /\ \E k \in DOMAIN trace : trace[k].type = "CellsFlipped" /\ trace[k].turn = 2
  /\ worlds[3] # worlds[2]
  /\ worlds[2] # worlds[1]

\* the distributor has returned having sent FinalTurnComplete, then
\* StateChange Quitting, and closed c.events; without 'q' or 'k' the final
\* turn is p.Turns
Terminated ==
  /\ main.pc = "exited"
  /\ chans.events > 0
  /\ \E i, j \in DOMAIN trace :
       /\ i < j
       /\ trace[i].type = "FinalTurnComplete"
       /\ trace[j].type = "StateChange"
       /\ trace[j].data = "Quitting"
       /\ (main.via \notin {"q", "k"} => trace[i].turn = p.Turns)

(* C25 -- termination: if the broker is reached and every ProcessTurn call
   returns successfully, and the run is never left paused forever, then
   under fair scheduling the controller eventually sends FinalTurnComplete
   followed by StateChange Quitting and closes c.events; with no 'q' and no
   'k' the final turn is p.Turns *)
C25_Termination ==
  ([](Failures = {} /\ main.via # "dial") /\ []<>(~isPaused)) => <>Terminated

=============================================================================
